---- MODULE Spec2Model ----
(***************************************************************************)
(* Maze engine of src/src/Maze_Generation.py: the array-backed Stack, the  *)
(* grid of Cells, the recursive randomised DFS that carves the maze        *)
(* (Maze.maze_generation_dfs) and the hint search (Maze.find_exit_dfs).    *)
(* A cell is the pair <<row, col>> of its place in grid_of_cells.          *)
(***************************************************************************)
EXTENDS Integers, Sequences, FiniteSets, TLC

\* Bounds of the model: the largest grid, in cells (rows * cols, which is also
\* the capacity of both stacks), and the number of hint requests.
MaxCells == 8
MaxHints == 2

VARIABLES
    rows, cols,          \* Maze.__rows, Maze.__cols
    exit_cell,           \* Maze.__exit_cell
    walls,               \* Cell.__walls of every cell
    visited,             \* Cell.__visited of every cell
    visited_dfs,         \* Cell.__visited_dfs of every cell
    visited_cells,       \* Maze.__visited_cells (a list)
    STACK,               \* Maze.__STACK
    find_exit_stack,     \* Maze.__find_exit_stack
    call_dfs,            \* Maze.__call_dfs
    pc,                  \* where the running method is
    frames,              \* the activations of maze_generation_dfs, innermost last
    hint,                \* the locals of the running (or last) find_exit_dfs call
    outcome,             \* how the last find_exit_dfs call ended
    requests,            \* the player cells of the find_exit_dfs calls made so far
    start,               \* Cell.__start of every cell
    exercise_present,    \* Cell.__exercise_present of every cell
    exercise_cells,      \* Maze.__exercise_cells (a list)
    completely_finished, \* CognitiveExercise._completely_finished of every cell's exercise
    call                 \* the locals of the running constructor, or the last
                         \* call made from outside and what it returned

\* What neither maze_generation_dfs nor find_exit_dfs writes.
roles == <<start, exercise_present, exercise_cells, completely_finished, call>>

vars == <<rows, cols, exit_cell, walls, visited, visited_dfs, visited_cells,
          STACK, find_exit_stack, call_dfs, pc, frames, hint, outcome, requests,
          roles>>

\* Python's None, where a cell is expected.
None == <<-1, -1>>

Cells == {<<r, c>> : r \in 0..(rows - 1), c \in 0..(cols - 1)}

----------------------------------------------------------------------------
\* class Stack

\* A stack with one slot less than asked for.
NewStack_one_slot_short(maxsize) ==
    [items |-> [i \in 1..(maxsize - 1) |-> None], stackpointer |-> -1]

\* Stack.__init__
NewStack(maxsize) == [items |-> [i \in 1..maxsize |-> None], stackpointer |-> -1]

\* A push that, on a full stack, overwrites the top item instead of dropping
\* the new one.
push_overwrites_when_full(S, item) ==
    IF S.stackpointer # Len(S.items) - 1
    THEN [items |-> [S.items EXCEPT ![S.stackpointer + 2] = item],
          stackpointer |-> S.stackpointer + 1]
    ELSE [S EXCEPT !.items[S.stackpointer + 1] = item]

\* A push without its test for a full stack.
push_unguarded(S, item) ==
    [items |-> [i \in 1..Len(S.items) |->
                   IF i = S.stackpointer + 2 THEN item ELSE S.items[i]],
     stackpointer |-> S.stackpointer + 1]

\* Stack.push
push(S, item) ==
    IF S.stackpointer # Len(S.items) - 1
    THEN [items |-> [S.items EXCEPT ![S.stackpointer + 2] = item],
          stackpointer |-> S.stackpointer + 1]
    ELSE S

\* A pop that leaves the stack pointer where it is.
pop_keeps_pointer(S) == S

\* A pop without its emptiness check.
pop_unguarded(S) == [S EXCEPT !.stackpointer = S.stackpointer - 1]

\* Stack.pop: the stack after the call, and the value returned.
pop(S) ==
    IF S.stackpointer # -1
    THEN [S EXCEPT !.stackpointer = S.stackpointer - 1]
    ELSE S

\* A pop that returns the bottom item.
popped_bottom_item(S) ==
    IF S.stackpointer # -1 THEN S.items[1] ELSE None

popped(S) ==
    IF S.stackpointer # -1 THEN S.items[S.stackpointer + 1] ELSE None

is_full(S) == S.stackpointer = Len(S.items) - 1

is_empty(S) == S.stackpointer = -1

\* Stack.peek: items[stackpointer], where Python reads index -1 as the last slot.
peek(S) ==
    IF S.stackpointer >= 0 THEN S.items[S.stackpointer + 1]
    ELSE S.items[Len(S.items) + S.stackpointer + 1]

\* The live entries of a stack, bottom first.
Live(S) == SubSeq(S.items, 1, S.stackpointer + 1)

----------------------------------------------------------------------------
\* class Cell

AllWalls == [top |-> TRUE, right |-> TRUE, bottom |-> TRUE, left |-> TRUE]

\* Cell.get_row_column_positioning: [column, row]
get_row_column_positioning(cell) == <<cell[2], cell[1]>>

\* A check_adjacent_cells whose bounds checks are off by one on the far side
\* (<= where the code has <).
adjacent_cells_off_by_one(cell) ==
    LET current_column == get_row_column_positioning(cell)[1]
        current_row == get_row_column_positioning(cell)[2]
    IN  (IF current_column - 1 >= 0 THEN <<(<<current_row, current_column - 1>>)>> ELSE <<>>)
     \o (IF current_column + 1 <= cols THEN <<(<<current_row, current_column + 1>>)>> ELSE <<>>)
     \o (IF current_row - 1 >= 0 THEN <<(<<current_row - 1, current_column>>)>> ELSE <<>>)
     \o (IF current_row + 1 <= rows THEN <<(<<current_row + 1, current_column>>)>> ELSE <<>>)

\* Cell.check_adjacent_cells before the shuffle: left, right, up, down.
adjacent_cells_unshuffled(cell) ==
    LET current_column == get_row_column_positioning(cell)[1]
        current_row == get_row_column_positioning(cell)[2]
    IN  (IF current_column - 1 >= 0 THEN <<(<<current_row, current_column - 1>>)>> ELSE <<>>)
     \o (IF current_column + 1 < cols THEN <<(<<current_row, current_column + 1>>)>> ELSE <<>>)
     \o (IF current_row - 1 >= 0 THEN <<(<<current_row - 1, current_column>>)>> ELSE <<>>)
     \o (IF current_row + 1 < rows THEN <<(<<current_row + 1, current_column>>)>> ELSE <<>>)

\* The orders random.shuffle can leave a list in.
Shuffles(s) ==
    {[i \in 1..Len(s) |-> s[p[i]]] : p \in Permutations(1..Len(s))}

\* Cell.check_adjacent_cells: the lists a call can return.
check_adjacent_cells(cell, shuffle) ==
    IF shuffle THEN Shuffles(adjacent_cells_unshuffled(cell))
    ELSE {adjacent_cells_unshuffled(cell)}

Range(s) == {s[i] : i \in 1..Len(s)}

----------------------------------------------------------------------------
\* class Maze

\* A remove_walls that clears, on each of the two cells, the wall that faces
\* away from the other cell.
remove_walls_far_sides(w, current_cell, next_cell) ==
    LET current_x == get_row_column_positioning(current_cell)[1]
        current_y == get_row_column_positioning(current_cell)[2]
        next_x == get_row_column_positioning(next_cell)[1]
        next_y == get_row_column_positioning(next_cell)[2]
        w1 == IF current_y - next_y = 1
              THEN [w EXCEPT ![next_cell].top = FALSE, ![current_cell].bottom = FALSE]
              ELSE w
        w2 == IF current_y - next_y = -1
              THEN [w1 EXCEPT ![next_cell].bottom = FALSE, ![current_cell].top = FALSE]
              ELSE w1
        w3 == IF current_x - next_x = -1
              THEN [w2 EXCEPT ![next_cell].right = FALSE, ![current_cell].left = FALSE]
              ELSE w2
        w4 == IF current_x - next_x = 1
              THEN [w3 EXCEPT ![next_cell].left = FALSE, ![current_cell].right = FALSE]
              ELSE w3
    IN  w4

\* A remove_walls that clears the wall on current_cell's side only.
remove_walls_current_side_only(w, current_cell, next_cell) ==
    LET current_x == get_row_column_positioning(current_cell)[1]
        current_y == get_row_column_positioning(current_cell)[2]
        next_x == get_row_column_positioning(next_cell)[1]
        next_y == get_row_column_positioning(next_cell)[2]
    IN  [w EXCEPT ![current_cell] =
            [top |-> IF current_y - next_y = 1 THEN FALSE ELSE @.top,
             bottom |-> IF current_y - next_y = -1 THEN FALSE ELSE @.bottom,
             right |-> IF current_x - next_x = -1 THEN FALSE ELSE @.right,
             left |-> IF current_x - next_x = 1 THEN FALSE ELSE @.left]]

\* Maze.remove_walls on the wall flags w: the four checks in the code's order.
remove_walls(w, current_cell, next_cell) ==
    LET current_x == get_row_column_positioning(current_cell)[1]
        current_y == get_row_column_positioning(current_cell)[2]
        next_x == get_row_column_positioning(next_cell)[1]
        next_y == get_row_column_positioning(next_cell)[2]
        w1 == IF current_y - next_y = 1
              THEN [w EXCEPT ![next_cell].bottom = FALSE, ![current_cell].top = FALSE]
              ELSE w
        w2 == IF current_y - next_y = -1
              THEN [w1 EXCEPT ![next_cell].top = FALSE, ![current_cell].bottom = FALSE]
              ELSE w1
        w3 == IF current_x - next_x = -1
              THEN [w2 EXCEPT ![next_cell].left = FALSE, ![current_cell].right = FALSE]
              ELSE w2
        w4 == IF current_x - next_x = 1
              THEN [w3 EXCEPT ![next_cell].right = FALSE, ![current_cell].left = FALSE]
              ELSE w3
    IN  w4

\* random.randint(n // 1.5, n - 1): the rows (columns) the exit can be in.
ExitRange(n) == ((2 * n) \div 3)..(n - 1)

\* The locals of find_exit_dfs before any call. PathToExit maps a cell to its
\* parent (None: no key); ForwardPath is the dict as its <<key, value>> items in
\* insertion order; broke tells whether the while loop ended by its break.
NoHint == [Player_Current_Cell |-> None, current_cell |-> None,
           visited_cells |-> {}, PathToExit |-> [c \in Cells |-> None],
           valid_cells |-> <<>>, broke |-> FALSE,
           ForwardPath |-> <<>>, cell |-> None]

\* No call recorded.
NoCall == [op |-> "none", item |-> None, ret |-> None]

\* Maze.__init__ has returned. On these grids (fewer than 4 rows or fewer than
\* 4 columns) a constructor that is asked for an exercise cell raises (see
\* CtorPick), so the mazes that exist have none.
Init ==
    /\ rows \in 1..MaxCells
    /\ cols \in 1..MaxCells
    /\ rows * cols <= MaxCells
    /\ exit_cell \in {<<r, c>> : r \in ExitRange(rows), c \in ExitRange(cols)}
    /\ walls = [cell \in Cells |-> AllWalls]
    /\ visited = [cell \in Cells |-> FALSE]
    /\ visited_dfs = [cell \in Cells |-> FALSE]
    /\ visited_cells = <<>>
    /\ STACK = push(NewStack(rows * cols), <<0, 0>>)
    /\ find_exit_stack = NewStack(rows * cols)
    /\ call_dfs = FALSE
    /\ pc = "idle"
    /\ frames = <<>>
    /\ hint = NoHint
    /\ outcome = "none"
    /\ requests = <<>>
    /\ start = [cell \in Cells |-> cell = <<0, 0>>]
    /\ exercise_present = [cell \in Cells |-> FALSE]
    /\ exercise_cells = <<>>
    /\ completely_finished = [cell \in Cells |-> FALSE]
    /\ call = NoCall

\* A setup_maze without its test of __call_dfs.
SetupMaze_unguarded ==
    /\ pc = "idle"
    /\ pc' = "gen_call"
    /\ UNCHANGED <<roles, rows, cols, exit_cell, walls, visited, visited_dfs, visited_cells,
                   STACK, find_exit_stack, call_dfs, frames, hint, outcome, requests>>

\* Maze.setup_maze, first call: enters maze_generation_dfs.
SetupMaze ==
    /\ pc = "idle"
    /\ ~call_dfs
    /\ pc' = "gen_call"
    /\ UNCHANGED <<roles, rows, cols, exit_cell, walls, visited, visited_dfs, visited_cells,
                   STACK, find_exit_stack, call_dfs, frames, hint, outcome, requests>>

\* Maze.setup_maze once the maze is carved: only draws.
SetupMazeAgain ==
    /\ pc = "idle"
    /\ call_dfs
    /\ UNCHANGED vars

\* What follows the return of an activation of maze_generation_dfs: the
\* caller's loop, or for the outermost call the rest of setup_maze.
GenReturnTo(fr) == IF fr = <<>> THEN "idle" ELSE "gen_loop"

\* maze_generation_dfs, entry: peek, mark, append, fetch the shuffled neighbours.
GenEnter ==
    /\ pc = "gen_call"
    /\ LET current_cell == peek(STACK) IN
        IF current_cell # None
        THEN /\ visited' = [visited EXCEPT ![current_cell] = TRUE]
             /\ visited_cells' = Append(visited_cells, peek(STACK))
             /\ \E adjacent_cells \in check_adjacent_cells(current_cell, TRUE) :
                    frames' = Append(frames, [current_cell |-> current_cell,
                                              adjacent_cells |-> adjacent_cells])
             /\ pc' = "gen_loop"
             /\ UNCHANGED call_dfs
        ELSE /\ pc' = GenReturnTo(frames)
             /\ call_dfs' = (IF frames = <<>> THEN TRUE ELSE call_dfs)
             /\ UNCHANGED <<visited, visited_cells, frames>>
    /\ UNCHANGED <<roles, rows, cols, exit_cell, walls, visited_dfs, STACK,
                   find_exit_stack, hint, outcome, requests>>

\* The innermost activation: its current_cell and the part of adjacent_cells
\* its for loop has still to go through.
TopFrame == frames[Len(frames)]

\* The loop body without its test of visited_cells.
GenCarve_any_neighbour ==
    /\ pc = "gen_loop"
    /\ TopFrame.adjacent_cells # <<>>
    /\ LET connected_cell == Head(TopFrame.adjacent_cells) IN
        /\ connected_cell # None
        /\ STACK' = push(STACK, connected_cell)
        /\ walls' = remove_walls(walls, TopFrame.current_cell, connected_cell)
    /\ frames' = [frames EXCEPT ![Len(frames)].adjacent_cells = Tail(@)]
    /\ pc' = "gen_call"
    /\ UNCHANGED <<roles, rows, cols, exit_cell, visited, visited_dfs, visited_cells,
                   find_exit_stack, call_dfs, hint, outcome, requests>>

\* maze_generation_dfs, loop body for a neighbour not yet visited: push it,
\* remove the walls, and call maze_generation_dfs.
GenCarve ==
    /\ pc = "gen_loop"
    /\ TopFrame.adjacent_cells # <<>>
    /\ LET connected_cell == Head(TopFrame.adjacent_cells) IN
        /\ connected_cell \notin Range(visited_cells)
        /\ connected_cell # None
        /\ STACK' = push(STACK, connected_cell)
        /\ walls' = remove_walls(walls, TopFrame.current_cell, connected_cell)
    /\ frames' = [frames EXCEPT ![Len(frames)].adjacent_cells = Tail(@)]
    /\ pc' = "gen_call"
    /\ UNCHANGED <<roles, rows, cols, exit_cell, visited, visited_dfs, visited_cells,
                   find_exit_stack, call_dfs, hint, outcome, requests>>

\* maze_generation_dfs, loop body for a neighbour already visited: nothing.
GenSkip ==
    /\ pc = "gen_loop"
    /\ TopFrame.adjacent_cells # <<>>
    /\ Head(TopFrame.adjacent_cells) \in Range(visited_cells)
    /\ frames' = [frames EXCEPT ![Len(frames)].adjacent_cells = Tail(@)]
    /\ UNCHANGED <<roles, rows, cols, exit_cell, walls, visited, visited_dfs, visited_cells,
                   STACK, find_exit_stack, call_dfs, pc, hint, outcome, requests>>

\* A return without the pop before it.
GenReturn_without_pop ==
    /\ pc = "gen_loop"
    /\ TopFrame.adjacent_cells = <<>>
    /\ frames' = SubSeq(frames, 1, Len(frames) - 1)
    /\ pc' = GenReturnTo(frames')
    /\ call_dfs' = (IF frames' = <<>> THEN TRUE ELSE call_dfs)
    /\ UNCHANGED <<roles, rows, cols, exit_cell, walls, visited, visited_dfs, visited_cells,
                   STACK, find_exit_stack, hint, outcome, requests>>

\* maze_generation_dfs, after the loop: pop and return; the return of the
\* outermost call lets setup_maze set __call_dfs.
GenReturn ==
    /\ pc = "gen_loop"
    /\ TopFrame.adjacent_cells = <<>>
    /\ STACK' = pop(STACK)
    /\ frames' = SubSeq(frames, 1, Len(frames) - 1)
    /\ pc' = GenReturnTo(frames')
    /\ call_dfs' = (IF frames' = <<>> THEN TRUE ELSE call_dfs)
    /\ UNCHANGED <<roles, rows, cols, exit_cell, walls, visited, visited_dfs, visited_cells,
                   find_exit_stack, hint, outcome, requests>>

----------------------------------------------------------------------------
\* Maze.find_exit_dfs

\* A validity check that looks at the positions only, not at the walls.
valid_for_ignoring_walls(current_cell, cell_to_be_checked) ==
    IF visited_dfs[cell_to_be_checked] THEN <<>> ELSE <<cell_to_be_checked>>

\* A validity check without its fourth if (the cell below current_cell).
valid_for_without_bottom(current_cell, cell_to_be_checked) ==
    LET current_cell_walls == walls[current_cell]
        cell_to_be_checked_walls == walls[cell_to_be_checked]
        current_cell_position == get_row_column_positioning(current_cell)
        cell_to_be_checked_position == get_row_column_positioning(cell_to_be_checked)
        one == IF visited_dfs[cell_to_be_checked] THEN <<>> ELSE <<cell_to_be_checked>>
    IN  (IF /\ current_cell_walls.right = FALSE /\ cell_to_be_checked_walls.left = FALSE
            /\ current_cell_position[1] = cell_to_be_checked_position[1] - 1
         THEN one ELSE <<>>)
     \o (IF /\ current_cell_walls.left = FALSE /\ cell_to_be_checked_walls.right = FALSE
            /\ current_cell_position[1] = cell_to_be_checked_position[1] + 1
         THEN one ELSE <<>>)
     \o (IF /\ current_cell_walls.top = FALSE /\ cell_to_be_checked_walls.bottom = FALSE
            /\ current_cell_position[2] = cell_to_be_checked_position[2] + 1
         THEN one ELSE <<>>)

\* A validity check that reads the walls of current_cell only.
valid_for_current_side_only(current_cell, cell_to_be_checked) ==
    LET current_cell_walls == walls[current_cell]
        current_cell_position == get_row_column_positioning(current_cell)
        cell_to_be_checked_position == get_row_column_positioning(cell_to_be_checked)
        one == IF visited_dfs[cell_to_be_checked] THEN <<>> ELSE <<cell_to_be_checked>>
    IN  (IF /\ current_cell_walls.right = FALSE
            /\ current_cell_position[1] = cell_to_be_checked_position[1] - 1
         THEN one ELSE <<>>)
     \o (IF /\ current_cell_walls.left = FALSE
            /\ current_cell_position[1] = cell_to_be_checked_position[1] + 1
         THEN one ELSE <<>>)
     \o (IF /\ current_cell_walls.top = FALSE
            /\ current_cell_position[2] = cell_to_be_checked_position[2] + 1
         THEN one ELSE <<>>)
     \o (IF /\ current_cell_walls.bottom = FALSE
            /\ current_cell_position[2] = cell_to_be_checked_position[2] - 1
         THEN one ELSE <<>>)

\* The validity checks of one adjacent cell (the four ifs, in the code's
\* order): the cells the checks append to valid_cells.
valid_for(current_cell, cell_to_be_checked) ==
    LET current_cell_walls == walls[current_cell]
        cell_to_be_checked_walls == walls[cell_to_be_checked]
        current_cell_position == get_row_column_positioning(current_cell)
        cell_to_be_checked_position == get_row_column_positioning(cell_to_be_checked)
        one == IF visited_dfs[cell_to_be_checked] THEN <<>> ELSE <<cell_to_be_checked>>
    IN  (IF /\ current_cell_walls.right = FALSE /\ cell_to_be_checked_walls.left = FALSE
            /\ current_cell_position[1] = cell_to_be_checked_position[1] - 1
         THEN one ELSE <<>>)
     \o (IF /\ current_cell_walls.left = FALSE /\ cell_to_be_checked_walls.right = FALSE
            /\ current_cell_position[1] = cell_to_be_checked_position[1] + 1
         THEN one ELSE <<>>)
     \o (IF /\ current_cell_walls.top = FALSE /\ cell_to_be_checked_walls.bottom = FALSE
            /\ current_cell_position[2] = cell_to_be_checked_position[2] + 1
         THEN one ELSE <<>>)
     \o (IF /\ current_cell_walls.bottom = FALSE /\ cell_to_be_checked_walls.top = FALSE
            /\ current_cell_position[2] = cell_to_be_checked_position[2] - 1
         THEN one ELSE <<>>)

RECURSIVE valid_from(_, _)
valid_from(current_cell, adjacent_cells) ==
    IF adjacent_cells = <<>> THEN <<>>
    ELSE valid_for(current_cell, Head(adjacent_cells))
         \o valid_from(current_cell, Tail(adjacent_cells))

\* valid_cells of the loop body for current_cell.
valid_cells_of(current_cell) ==
    valid_from(current_cell, adjacent_cells_unshuffled(current_cell))

\* d[key] = value on a dict kept as its items in insertion order.
DictSet(d, key, value) ==
    IF \E i \in 1..Len(d) : d[i][1] = key
    THEN [i \in 1..Len(d) |-> IF d[i][1] = key THEN <<key, value>> ELSE d[i]]
    ELSE Append(d, <<key, value>>)

\* d.values()
DictValues(d) == [i \in 1..Len(d) |-> d[i][2]]

\* find_exit_dfs, entry: push the player's cell, fresh visited set and parent map.
HintStart(Player_Current_Cell) ==
    /\ pc = "idle"
    /\ call_dfs
    /\ Len(requests) < MaxHints
    /\ find_exit_stack' = push(find_exit_stack, Player_Current_Cell)
    /\ hint' = [NoHint EXCEPT !.Player_Current_Cell = Player_Current_Cell]
    /\ outcome' = "running"
    /\ requests' = Append(requests, Player_Current_Cell)
    /\ pc' = "hint_loop"
    /\ UNCHANGED <<roles, rows, cols, exit_cell, walls, visited, visited_dfs, visited_cells,
                   STACK, call_dfs, frames>>

\* The loop body without visited_cells.add(current_cell).
HintPop_without_visited_add ==
    /\ pc = "hint_loop"
    /\ hint.valid_cells = <<>>
    /\ ~is_empty(find_exit_stack)
    /\ popped(find_exit_stack) # exit_cell
    /\ find_exit_stack' = pop(find_exit_stack)
    /\ LET current_cell == popped(find_exit_stack) IN
        hint' = [hint EXCEPT !.current_cell = current_cell,
                             !.valid_cells = valid_cells_of(current_cell)]
    /\ UNCHANGED <<roles, rows, cols, exit_cell, walls, visited, visited_dfs, visited_cells,
                   STACK, call_dfs, pc, frames, outcome, requests>>

\* The while loop, one iteration up to the push loop: pop a cell that is not
\* the exit, add it to visited_cells and collect its valid cells.
HintPop ==
    /\ pc = "hint_loop"
    /\ hint.valid_cells = <<>>
    /\ ~is_empty(find_exit_stack)
    /\ popped(find_exit_stack) # exit_cell
    /\ find_exit_stack' = pop(find_exit_stack)
    /\ LET current_cell == popped(find_exit_stack) IN
        hint' = [hint EXCEPT !.current_cell = current_cell,
                             !.visited_cells = @ \cup {current_cell},
                             !.valid_cells = valid_cells_of(current_cell)]
    /\ UNCHANGED <<roles, rows, cols, exit_cell, walls, visited, visited_dfs, visited_cells,
                   STACK, call_dfs, pc, frames, outcome, requests>>

\* The while loop pops the exit cell: break.
HintBreak ==
    /\ pc = "hint_loop"
    /\ hint.valid_cells = <<>>
    /\ ~is_empty(find_exit_stack)
    /\ popped(find_exit_stack) = exit_cell
    /\ find_exit_stack' = pop(find_exit_stack)
    /\ hint' = [hint EXCEPT !.current_cell = exit_cell, !.broke = TRUE,
                             !.cell = exit_cell]
    /\ pc' = "hint_walk"
    /\ UNCHANGED <<roles, rows, cols, exit_cell, walls, visited, visited_dfs, visited_cells,
                   STACK, call_dfs, frames, outcome, requests>>

\* The while loop finds the stack empty: the loop ends without a break.
HintExhausted ==
    /\ pc = "hint_loop"
    /\ hint.valid_cells = <<>>
    /\ is_empty(find_exit_stack)
    /\ hint' = [hint EXCEPT !.cell = exit_cell]
    /\ pc' = "hint_walk"
    /\ UNCHANGED <<roles, rows, cols, exit_cell, walls, visited, visited_dfs, visited_cells,
                   STACK, find_exit_stack, call_dfs, frames, outcome, requests>>

\* The push loop without its test of visited_cells.
HintPush_any_valid_cell ==
    /\ pc = "hint_loop"
    /\ hint.valid_cells # <<>>
    /\ LET cell == Head(hint.valid_cells) IN
        /\ find_exit_stack' = push(find_exit_stack, cell)
        /\ hint' = [hint EXCEPT !.valid_cells = Tail(@),
                                 !.PathToExit[cell] = hint.current_cell]
    /\ UNCHANGED <<roles, rows, cols, exit_cell, walls, visited, visited_dfs, visited_cells,
                   STACK, call_dfs, pc, frames, outcome, requests>>

\* for cell in valid_cells, a cell not in visited_cells: push it and record
\* its parent.
HintPush ==
    /\ pc = "hint_loop"
    /\ hint.valid_cells # <<>>
    /\ LET cell == Head(hint.valid_cells) IN
        /\ cell \notin hint.visited_cells
        /\ find_exit_stack' = push(find_exit_stack, cell)
        /\ hint' = [hint EXCEPT !.valid_cells = Tail(@),
                                 !.PathToExit[cell] = hint.current_cell]
    /\ UNCHANGED <<roles, rows, cols, exit_cell, walls, visited, visited_dfs, visited_cells,
                   STACK, call_dfs, pc, frames, outcome, requests>>

\* for cell in valid_cells, a cell already in visited_cells: nothing.
HintSkip ==
    /\ pc = "hint_loop"
    /\ hint.valid_cells # <<>>
    /\ Head(hint.valid_cells) \in hint.visited_cells
    /\ hint' = [hint EXCEPT !.valid_cells = Tail(@)]
    /\ UNCHANGED <<roles, rows, cols, exit_cell, walls, visited, visited_dfs, visited_cells,
                   STACK, find_exit_stack, call_dfs, pc, frames, outcome, requests>>

\* The backward walk, one step: ForwardPath[PathToExit[cell]] = cell.
HintWalk ==
    /\ pc = "hint_walk"
    /\ hint.cell # hint.Player_Current_Cell
    /\ hint.PathToExit[hint.cell] # None
    /\ hint' = [hint EXCEPT !.ForwardPath = DictSet(@, hint.PathToExit[hint.cell], hint.cell),
                             !.cell = hint.PathToExit[hint.cell]]
    /\ UNCHANGED <<roles, rows, cols, exit_cell, walls, visited, visited_dfs, visited_cells,
                   STACK, find_exit_stack, call_dfs, pc, frames, outcome, requests>>

\* The backward walk reads PathToExit[cell] for a cell that is no key: the
\* KeyError leaves find_exit_dfs.
HintKeyError ==
    /\ pc = "hint_walk"
    /\ hint.cell # hint.Player_Current_Cell
    /\ hint.PathToExit[hint.cell] = None
    /\ outcome' = "KeyError"
    /\ pc' = "idle"
    /\ UNCHANGED <<roles, rows, cols, exit_cell, walls, visited, visited_dfs, visited_cells,
                   STACK, find_exit_stack, call_dfs, frames, hint, requests>>

\* A last loop that flags the keys of ForwardPath as well as its values.
HintMark_with_keys ==
    /\ pc = "hint_walk"
    /\ hint.cell = hint.Player_Current_Cell
    /\ visited_dfs' = [c \in Cells |->
                          IF \/ c \in Range(DictValues(hint.ForwardPath))
                             \/ \E i \in 1..Len(hint.ForwardPath) :
                                    hint.ForwardPath[i][1] = c
                          THEN TRUE
                          ELSE visited_dfs[c]]
    /\ outcome' = "returned"
    /\ pc' = "idle"
    /\ UNCHANGED <<roles, rows, cols, exit_cell, walls, visited, visited_cells,
                   STACK, find_exit_stack, call_dfs, frames, hint, requests>>

\* A last loop that also resets the generation flag of the cells it flags.
HintMark_clears_visited ==
    /\ pc = "hint_walk"
    /\ hint.cell = hint.Player_Current_Cell
    /\ visited_dfs' = [c \in Cells |->
                          IF c \in Range(DictValues(hint.ForwardPath)) THEN TRUE
                          ELSE visited_dfs[c]]
    /\ visited' = [c \in Cells |->
                      IF c \in Range(DictValues(hint.ForwardPath)) THEN FALSE
                      ELSE visited[c]]
    /\ outcome' = "returned"
    /\ pc' = "idle"
    /\ UNCHANGED <<roles, rows, cols, exit_cell, walls, visited_cells,
                   STACK, find_exit_stack, call_dfs, frames, hint, requests>>

\* The backward walk has reached the player's cell: flag the cells of
\* ForwardPath.values() and return.
HintMark ==
    /\ pc = "hint_walk"
    /\ hint.cell = hint.Player_Current_Cell
    /\ visited_dfs' = [c \in Cells |->
                          IF c \in Range(DictValues(hint.ForwardPath)) THEN TRUE
                          ELSE visited_dfs[c]]
    /\ outcome' = "returned"
    /\ pc' = "idle"
    /\ UNCHANGED <<roles, rows, cols, exit_cell, walls, visited, visited_cells,
                   STACK, find_exit_stack, call_dfs, frames, hint, requests>>

Next ==
    \/ SetupMaze
    \/ SetupMazeAgain
    \/ GenEnter
    \/ GenCarve
    \/ GenSkip
    \/ GenReturn
    \/ \E Player_Current_Cell \in Cells : HintStart(Player_Current_Cell)
    \/ HintPop
    \/ HintBreak
    \/ HintExhausted
    \/ HintPush
    \/ HintSkip
    \/ HintWalk
    \/ HintKeyError
    \/ HintMark

Spec == Init /\ [][Next]_vars

\* The steps of maze_generation_dfs and of find_exit_dfs: both run
\* synchronously to their end once called.
GenStep == GenEnter \/ GenCarve \/ GenSkip \/ GenReturn

HintStep == HintPop \/ HintBreak \/ HintExhausted \/ HintPush \/ HintSkip
            \/ HintWalk \/ HintKeyError \/ HintMark

\* A called method keeps running: no step of it waits for ever.
FairSpec == Init /\ [][Next]_vars /\ WF_vars(GenStep) /\ WF_vars(HintStep)

----------------------------------------------------------------------------
\* The open-edge graph of the grid.

Start == <<0, 0>>

\* Horizontally and vertically adjacent pairs, <<A, B>> with B right of (below) A.
HPairs == {<<(<<r, c>>), (<<r, c + 1>>)>> : r \in 0..(rows - 1), c \in 0..(cols - 2)}
VPairs == {<<(<<r, c>>), (<<r + 1, c>>)>> : r \in 0..(rows - 2), c \in 0..(cols - 1)}

\* The pairs whose shared wall is False on both sides.
OpenEdges ==
    {p \in HPairs : ~walls[p[1]].right /\ ~walls[p[2]].left}
    \cup {p \in VPairs : ~walls[p[1]].bottom /\ ~walls[p[2]].top}

\* Cells a and b are grid-adjacent and their shared wall is False on both sides.
Open(a, b) ==
    \/ b = <<a[1], a[2] + 1>> /\ ~walls[a].right /\ ~walls[b].left
    \/ b = <<a[1], a[2] - 1>> /\ ~walls[a].left /\ ~walls[b].right
    \/ b = <<a[1] + 1, a[2]>> /\ ~walls[a].bottom /\ ~walls[b].top
    \/ b = <<a[1] - 1, a[2]>> /\ ~walls[a].top /\ ~walls[b].bottom

RECURSIVE ReachFrom(_)
ReachFrom(S) ==
    LET more == S \cup {b \in Cells : \E a \in S : Open(a, b)}
    IN  IF more = S THEN S ELSE ReachFrom(more)

\* Generation has returned to setup_maze (no hint request changes a wall, so
\* the carved grid is looked at before the first hint request).
Generated == call_dfs

----------------------------------------------------------------------------
\* C1: once maze_generation_dfs has returned, the open-edge graph has exactly
\* rows*cols - 1 edges and every cell is reachable from the start cell through
\* open edges, for every grid size and every shuffle order.
C1_SpanningTree ==
    (Generated /\ requests = <<>>) =>
        /\ Cardinality(OpenEdges) = rows * cols - 1
        /\ ReachFrom({Start}) = Cells

\* A carved grid with a branch (at least two rows and two columns).
C1_Witness ==
    /\ Generated
    /\ rows >= 2 /\ cols >= 2
    /\ Cardinality(OpenEdges) = rows * cols - 1
    /\ ReachFrom({Start}) = Cells

\* C2: in every state between carve operations, during generation and after
\* it, the two flags of each shared wall agree: A.right = B.left for a
\* horizontal pair and A.bottom = B.top for a vertical pair.
C2_WallSymmetry ==
    /\ \A r \in 0..(rows - 1), c \in 0..(cols - 2) :
           walls[<<r, c>>].right = walls[<<r, c + 1>>].left
    /\ \A r \in 0..(rows - 2), c \in 0..(cols - 1) :
           walls[<<r, c>>].bottom = walls[<<r + 1, c>>].top

\* In the middle of generation, with walls already carved both ways.
C2_Witness ==
    /\ pc = "gen_loop"
    /\ Len(frames) >= 2
    /\ \E p \in HPairs : ~walls[p[1]].right /\ ~walls[p[2]].left
    /\ \E p \in VPairs : ~walls[p[1]].bottom /\ ~walls[p[2]].top

\* C3: generation terminates; the generation stack is never empty while a cell
\* is still unvisited, and it is empty once the top-level maze_generation_dfs
\* call has returned.
C3_TerminatesWithEmptyStack ==
    /\ [](is_empty(STACK) => \A c \in Cells : visited[c])
    /\ [](Generated => is_empty(STACK) /\ \A c \in Cells : visited[c])
    /\ (pc = "gen_call") ~> (pc = "idle" /\ Generated)

\* Generation has returned on a grid where it had to backtrack out of several
\* cells, and the stack is empty.
C3_Witness ==
    /\ Generated
    /\ pc = "idle"
    /\ rows * cols >= 4
    /\ is_empty(STACK)
    /\ Len(visited_cells) = rows * cols

----------------------------------------------------------------------------
\* The result of a hint request.

Player == hint.Player_Current_Cell

HasKey(d, key) == \E i \in 1..Len(d) : d[i][1] = key

\* d[key], for a key of d
Lookup(d, key) == d[CHOOSE i \in 1..Len(d) : d[i][1] = key][2]

\* The cells met when ForwardPath is followed from cell p: ForwardPath[p],
\* ForwardPath[ForwardPath[p]], ... (at most n of them).
RECURSIVE Chain(_, _, _)
Chain(d, p, n) ==
    IF n = 0 \/ ~HasKey(d, p) THEN <<>>
    ELSE <<Lookup(d, p)>> \o Chain(d, Lookup(d, p), n - 1)

\* The hint path in walking order, the player's cell excluded.
HintPath == Chain(hint.ForwardPath, Player, Len(hint.ForwardPath))

Distinct(s) == \A i, j \in 1..Len(s) : i # j => s[i] # s[j]

\* The last find_exit_dfs call has ended (by return or by exception).
HintOver == pc = "idle" /\ requests # <<>>

\* Length of the shortest open-edge route from cell c to the exit
\* (rows * cols when there is none).
RECURSIVE DistFrom(_, _, _)
DistFrom(S, c, n) ==
    IF c \in S THEN n
    ELSE LET more == S \cup {b \in Cells : \E a \in S : Open(a, b)}
         IN  IF more = S THEN rows * cols ELSE DistFrom(more, c, n + 1)

Dist(c) == DistFrom({exit_cell}, c, 0)

----------------------------------------------------------------------------
\* C4: after the first hint request, from any player cell, the flagged cells
\* walked in order from the player's cell form a route whose every step joins
\* two adjacent cells with the shared wall open on both sides, and whose last
\* cell is the exit.
C4_HintPathFollowsOpenEdges ==
    (HintOver /\ Len(requests) = 1 /\ outcome = "returned") =>
        LET walk == <<Player>> \o HintPath IN
            /\ Range(HintPath) = {c \in Cells : visited_dfs[c]}
            /\ Len(HintPath) = Len(hint.ForwardPath)
            /\ \A i \in 1..(Len(walk) - 1) : Open(walk[i], walk[i + 1])
            /\ walk[Len(walk)] = exit_cell

\* A first hint that returned a route of three steps or more with a turn in it.
C4_Witness ==
    /\ HintOver /\ Len(requests) = 1 /\ outcome = "returned"
    /\ Len(HintPath) >= 3
    /\ HintPath[Len(HintPath)] = exit_cell
    /\ \E i, j \in 1..Len(HintPath) :
           HintPath[i][1] # HintPath[j][1] /\ HintPath[i][2] # HintPath[j][2]

\* C5: on a generated maze with no earlier hint, a hint request from a cell
\* other than the exit ends its search loop by popping the exit (not by
\* emptying the stack) and returns a non-empty path that ends at the exit.
C5_FirstHintReachesExit ==
    (Generated /\ Len(requests) = 1 /\ Player # exit_cell) =>
        /\ pc = "hint_walk" => hint.broke
        /\ outcome # "KeyError"
        /\ pc = "idle" =>
              /\ outcome = "returned"
              /\ hint.broke
              /\ HintPath # <<>>
              /\ HintPath[Len(HintPath)] = exit_cell

\* A first hint from the start cell, not next to the exit, that returned.
C5_Witness ==
    /\ HintOver /\ Len(requests) = 1 /\ outcome = "returned"
    /\ Player = Start
    /\ hint.broke
    /\ Len(HintPath) >= 2

\* C6: repeated hint requests on one maze, each from a cell closer to the exit
\* than the one before, each return normally with a path without a repeated cell.
C6_RepeatedHintsReturn ==
    (HintOver /\ Len(requests) >= 2
       /\ \A i \in 2..Len(requests) : Dist(requests[i]) < Dist(requests[i - 1])) =>
        /\ outcome = "returned"
        /\ Distinct(DictValues(hint.ForwardPath))

\* C7: when the search loop ends on an empty stack without having popped the
\* exit, find_exit_dfs does not end in an exception, and the backward walk is
\* not attempted with the exit key missing from the parent map.
C7_ExhaustionIsReported ==
    (requests # <<>> /\ ~hint.broke) =>
        /\ outcome # "KeyError"
        /\ ~(/\ pc = "hint_walk"
             /\ hint.cell = exit_cell
             /\ hint.cell # Player
             /\ hint.PathToExit[exit_cell] = None)

\* C8: the backward walk from the exit through the parent map meets no cell
\* twice: the cells walked so far are pairwise distinct, every step added a
\* new entry to the path, and a walk that returns has ended on the player's cell.
C8_HintPathIsSimple ==
    /\ Distinct(DictValues(hint.ForwardPath) \o <<hint.cell>>)
    /\ Distinct([i \in 1..Len(hint.ForwardPath) |-> hint.ForwardPath[i][1]])
    /\ Len(hint.ForwardPath) <= rows * cols - 1
    /\ (HintOver /\ outcome = "returned") => hint.cell = Player

\* A walk that has gone back at least three cells.
C8_Witness ==
    /\ HintOver /\ outcome = "returned"
    /\ Len(hint.ForwardPath) >= 3
    /\ Player # Start

\* C9: a hint request whose player cell is the exit pushes that cell, pops it
\* again with the break, walks back no step and returns: no visited_dfs flag
\* changes and the live entries of the hint stack are afterwards what they
\* were before the call.
C9_HintAtExitChangesNothing ==
    [][(hint'.Player_Current_Cell = exit_cell /\ (pc # "idle" \/ pc' # "idle")) =>
          /\ visited_dfs' = visited_dfs
          /\ pc = "idle" =>
                Live(find_exit_stack') = Append(Live(find_exit_stack), exit_cell)
          /\ pc = "hint_loop" =>
                /\ pc' = "hint_walk"
                /\ hint'.broke
                /\ Live(find_exit_stack) = Append(Live(find_exit_stack'), exit_cell)
          /\ pc = "hint_walk" =>
                /\ pc' = "idle"
                /\ outcome' = "returned"
                /\ hint'.ForwardPath = <<>>
                /\ find_exit_stack' = find_exit_stack
      ]_vars

\* A hint from the exit cell has returned, asked after an earlier hint that
\* left entries on the hint stack.
C9_Witness ==
    /\ HintOver /\ Len(requests) = 2
    /\ Player = exit_cell
    /\ outcome = "returned"
    /\ hint.ForwardPath = <<>>
    /\ ~is_empty(find_exit_stack)
    /\ \E c \in Cells : visited_dfs[c]

\* C10: no push is attempted on a full stack: the constructor's push, the push
\* of generation, the first push of a hint request and the pushes of the hint
\* search all find room, so no pushed cell is dropped.
C10_NoPushOnFullStack ==
    /\ (~Generated /\ pc = "idle") => Live(STACK) = <<Start>>
    /\ (pc = "gen_loop" /\ TopFrame.adjacent_cells # <<>>
          /\ Head(TopFrame.adjacent_cells) \notin Range(visited_cells)) => ~is_full(STACK)
    /\ (pc = "idle" /\ Generated) => ~is_full(find_exit_stack)
    /\ (pc = "hint_loop" /\ hint.valid_cells # <<>>
          /\ Head(hint.valid_cells) \notin hint.visited_cells) => ~is_full(find_exit_stack)

\* Generation is about to push onto a stack with one free slot left, and a
\* hint search is about to push while entries of an earlier hint are live.
C10_Witness ==
    \/ /\ pc = "gen_loop" /\ TopFrame.adjacent_cells # <<>>
       /\ Head(TopFrame.adjacent_cells) \notin Range(visited_cells)
       /\ STACK.stackpointer = Len(STACK.items) - 2
       /\ rows * cols >= 6
    \/ /\ pc = "hint_loop" /\ hint.valid_cells # <<>>
       /\ Head(hint.valid_cells) \notin hint.visited_cells
       /\ Len(requests) = 2
       /\ find_exit_stack.stackpointer >= 2

----------------------------------------------------------------------------
\* A Stack on its own, under any sequence of push, pop and peek calls. The
\* stack is kept in STACK; call records the last call and what it returned.

\* Bounds: the largest capacity, and how many different items are pushed.
MaxStack == 3
MaxItems == 2

StackItems == {<<0, i>> : i \in 0..(MaxItems - 1)}

\* Stack(maxsize) has been constructed; nothing else of a maze is in use.
StackInit ==
    /\ rows = 1
    /\ cols = 1
    /\ exit_cell = <<0, 0>>
    /\ walls = [cell \in Cells |-> AllWalls]
    /\ visited = [cell \in Cells |-> FALSE]
    /\ visited_dfs = [cell \in Cells |-> FALSE]
    /\ visited_cells = <<>>
    /\ \E maxsize \in 1..MaxStack : STACK = NewStack(maxsize)
    /\ find_exit_stack = NewStack(1)
    /\ call_dfs = FALSE
    /\ pc = "stack"
    /\ frames = <<>>
    /\ hint = NoHint
    /\ outcome = "none"
    /\ requests = <<>>
    /\ start = [cell \in Cells |-> FALSE]
    /\ exercise_present = [cell \in Cells |-> FALSE]
    /\ exercise_cells = <<>>
    /\ completely_finished = [cell \in Cells |-> FALSE]
    /\ call = NoCall

\* What a call on the stack leaves alone.
maze == <<rows, cols, exit_cell, walls, visited, visited_dfs, visited_cells,
          find_exit_stack, call_dfs, pc, frames, hint, outcome, requests,
          start, exercise_present, exercise_cells, completely_finished>>

\* Stack.push(item)
StackPush(item) ==
    /\ pc = "stack"
    /\ STACK' = push(STACK, item)
    /\ call' = [op |-> "push", item |-> item, ret |-> None]
    /\ UNCHANGED maze

\* Stack.pop()
StackPop ==
    /\ pc = "stack"
    /\ STACK' = pop(STACK)
    /\ call' = [op |-> "pop", item |-> None, ret |-> popped(STACK)]
    /\ UNCHANGED maze

\* Stack.peek()
StackPeek ==
    /\ pc = "stack"
    /\ call' = [op |-> "peek", item |-> None, ret |-> peek(STACK)]
    /\ UNCHANGED <<maze, STACK>>

StackNext ==
    \/ \E item \in StackItems : StackPush(item)
    \/ StackPop
    \/ StackPeek

StackSpec == StackInit /\ [][StackNext]_vars

----------------------------------------------------------------------------
\* C11: push on a stack that already holds capacity-many items is a no-op:
\* the stack pointer and every stored item stay as they are, and the pushed item
\* is not stored.
C11_PushOnFullIsNoOp ==
    [][(call'.op = "push" /\ is_full(STACK)) =>
          /\ STACK'.stackpointer = STACK.stackpointer
          /\ STACK'.items = STACK.items
      ]_vars

\* A push was made on a full stack of capacity 2 or more that does not hold
\* the pushed item.
C11_Witness ==
    /\ call.op = "push"
    /\ is_full(STACK)
    /\ Len(STACK.items) >= 2
    /\ call.item \notin Range(STACK.items)

\* C12: pop on an empty stack returns None, raises nothing, and leaves the
\* stack pointer at -1 and the stored items unchanged.
C12_PopOnEmptyIsNoOp ==
    [][(call'.op = "pop" /\ is_empty(STACK)) =>
          /\ call'.ret = None
          /\ STACK'.stackpointer = -1
          /\ STACK'.items = STACK.items
      ]_vars

\* A pop was made on a stack that was empty but had held items before.
C12_Witness ==
    /\ call.op = "pop"
    /\ call.ret = None
    /\ is_empty(STACK)
    /\ \E i \in 1..Len(STACK.items) : STACK.items[i] # None

----------------------------------------------------------------------------
\* The grid on its own: Cell.check_adjacent_cells called on any cell of any
\* grid of up to MaxDim rows and MaxDim columns.

MaxDim == 5

\* A stack that has not been created yet.
NoStack == NewStack(0)

\* Maze.__init__ has built grid_of_cells (lines 190-208): no exit, no start,
\* no exercise cell and no stack yet.
GridBuilt ==
    /\ rows \in 1..MaxDim
    /\ cols \in 1..MaxDim
    /\ exit_cell = None
    /\ walls = [cell \in Cells |-> AllWalls]
    /\ visited = [cell \in Cells |-> FALSE]
    /\ visited_dfs = [cell \in Cells |-> FALSE]
    /\ visited_cells = <<>>
    /\ STACK = NoStack
    /\ find_exit_stack = NoStack
    /\ call_dfs = FALSE
    /\ frames = <<>>
    /\ hint = NoHint
    /\ outcome = "none"
    /\ requests = <<>>
    /\ start = [cell \in Cells |-> FALSE]
    /\ exercise_present = [cell \in Cells |-> FALSE]
    /\ exercise_cells = <<>>
    /\ completely_finished = [cell \in Cells |-> FALSE]

AdjInit ==
    /\ GridBuilt
    /\ pc = "grid"
    /\ call = NoCall

\* cell.check_adjacent_cells(shuffle)
CheckAdjacent(cell, shuffle) ==
    /\ pc = "grid"
    /\ \E adjacent_cells \in check_adjacent_cells(cell, shuffle) :
           call' = [op |-> "check_adjacent_cells", item |-> <<cell, shuffle>>,
                    ret |-> adjacent_cells]
    /\ UNCHANGED <<maze, STACK>>

AdjNext == \E cell \in Cells, shuffle \in BOOLEAN : CheckAdjacent(cell, shuffle)

AdjSpec == AdjInit /\ [][AdjNext]_vars

\* The orthogonal neighbours of a cell that lie inside the grid.
Neighbours(cell) ==
    {d \in Cells : \/ d[1] = cell[1] /\ (d[2] = cell[2] - 1 \/ d[2] = cell[2] + 1)
                   \/ d[2] = cell[2] /\ (d[1] = cell[1] - 1 \/ d[1] = cell[1] + 1)}

\* Left, right, up, down of a cell, inside the grid or not.
Around(cell) == << <<cell[1], cell[2] - 1>>, <<cell[1], cell[2] + 1>>,
                   <<cell[1] - 1, cell[2]>>, <<cell[1] + 1, cell[2]>> >>

InGrid(d) == d \in Cells

\* C14: for every cell of the grid and either value of shuffle,
\* check_adjacent_cells returns exactly the orthogonal neighbours inside the
\* grid, each once (never the cell itself, never a position out of bounds);
\* with shuffle false, in the order left, right, up, down.
C14_AdjacentCells ==
    call.op = "check_adjacent_cells" =>
        LET cell == call.item[1]
            shuffle == call.item[2]
        IN  /\ Range(call.ret) = Neighbours(cell)
            /\ Len(call.ret) = Cardinality(Neighbours(cell))
            /\ cell \notin Range(call.ret)
            /\ Range(call.ret) \subseteq Cells
            /\ ~shuffle => call.ret = SelectSeq(Around(cell), InGrid)

\* A shuffled call on an inner cell returned its four neighbours in another
\* order than left, right, up, down; an unshuffled call on a corner cell
\* returned two.
C14_Witness ==
    /\ call.op = "check_adjacent_cells"
    /\ \/ /\ call.item[2]
          /\ Len(call.ret) = 4
          /\ call.ret # SelectSeq(Around(call.item[1]), InGrid)
       \/ /\ ~call.item[2]
          /\ Len(call.ret) = 2
          /\ call.item[1] = <<rows - 1, cols - 1>>

----------------------------------------------------------------------------
\* Maze.__init__ step by step, on grids of up to MaxDim rows and columns and
\* for every count range 0 <= min_exercise_cells <= max_exercise_cells <=
\* MaxExercise.

MaxExercise == 2

\* min_exercise_cells and max_exercise_cells of the running constructor, and
\* the iterations its for loop has still to make (None before the loop).
min_exercise_cells == call.item[1]
max_exercise_cells == call.item[2]

\* grid_of_cells is built; the arguments are fixed.
CtorInit ==
    /\ GridBuilt
    /\ pc = "ctor_exit"
    /\ \E min \in 0..MaxExercise, max \in 0..MaxExercise :
           /\ min <= max
           /\ call = [op |-> "__init__", item |-> <<min, max>>, ret |-> None]

\* Lines 210-216: the random exit cell, and the number of iterations
\* random.randint(min_exercise_cells, max_exercise_cells) of the for loop.
CtorExit ==
    /\ pc = "ctor_exit"
    /\ exit_cell' \in {<<r, c>> : r \in ExitRange(rows), c \in ExitRange(cols)}
    /\ \E n \in min_exercise_cells..max_exercise_cells :
           call' = [call EXCEPT !.ret = n]
    /\ pc' = "ctor_loop"
    /\ UNCHANGED <<rows, cols, walls, visited, visited_dfs, visited_cells, STACK,
                   find_exit_stack, call_dfs, frames, hint, outcome, requests,
                   start, exercise_present, exercise_cells,
                   completely_finished>>

\* One iteration without its test of the exit and start flags.
CtorPick_without_flag_test ==
    /\ pc = "ctor_loop"
    /\ call.ret > 0
    /\ rows >= 4 /\ cols >= 4
    /\ \E row_number \in 4..rows, cols_number \in 4..cols :
         LET exercise_cell == <<row_number - 1, cols_number - 1>> IN
            /\ exercise_present' = [exercise_present EXCEPT ![exercise_cell] = TRUE]
            /\ exercise_cells' = Append(exercise_cells, exercise_cell)
    /\ call' = [call EXCEPT !.ret = @ - 1]
    /\ UNCHANGED <<rows, cols, exit_cell, walls, visited, visited_dfs, visited_cells,
                   STACK, find_exit_stack, call_dfs, pc, frames, hint, outcome,
                   requests, start, completely_finished>>

\* Lines 216-223, one iteration: a random cell of rows 4..rows and columns
\* 4..cols (counted from 1) becomes an exercise cell unless it is the exit or
\* the start.
CtorPick ==
    /\ pc = "ctor_loop"
    /\ call.ret > 0
    /\ rows >= 4 /\ cols >= 4
    /\ \E row_number \in 4..rows, cols_number \in 4..cols :
         LET exercise_cell == <<row_number - 1, cols_number - 1>> IN
            IF exercise_cell # exit_cell /\ ~start[exercise_cell]
            THEN /\ exercise_present' = [exercise_present EXCEPT ![exercise_cell] = TRUE]
                 /\ exercise_cells' = Append(exercise_cells, exercise_cell)
            ELSE UNCHANGED <<exercise_present, exercise_cells>>
    /\ call' = [call EXCEPT !.ret = @ - 1]
    /\ UNCHANGED <<rows, cols, exit_cell, walls, visited, visited_dfs, visited_cells,
                   STACK, find_exit_stack, call_dfs, pc, frames, hint, outcome,
                   requests, start, completely_finished>>

\* Lines 217-218 on a grid of fewer than 4 rows or 4 columns:
\* random.randint(4, n) raises ValueError and no Maze comes to exist.
CtorRaise ==
    /\ pc = "ctor_loop"
    /\ call.ret > 0
    /\ rows < 4 \/ cols < 4
    /\ pc' = "ValueError"
    /\ UNCHANGED <<rows, cols, exit_cell, walls, visited, visited_dfs, visited_cells,
                   STACK, find_exit_stack, call_dfs, frames, hint, outcome, requests,
                   roles>>

\* Lines 225-240: the start cell and the two stacks.
CtorFinish ==
    /\ pc = "ctor_loop"
    /\ call.ret = 0
    /\ start' = [start EXCEPT ![<<0, 0>>] = TRUE]
    /\ STACK' = push(NewStack(rows * cols), <<0, 0>>)
    /\ find_exit_stack' = NewStack(rows * cols)
    /\ pc' = "idle"
    /\ UNCHANGED <<rows, cols, exit_cell, walls, visited, visited_dfs, visited_cells,
                   call_dfs, frames, hint, outcome, requests,
                   exercise_present, exercise_cells, completely_finished, call>>

CtorNext ==
    \/ CtorExit
    \/ CtorPick
    \/ CtorRaise
    \/ CtorFinish

CtorSpec == CtorInit /\ [][CtorNext]_vars

\* Maze.__init__ has returned.
Constructed == pc = "idle"

\* The role flags of a cell that are set.
RoleFlags(cell) ==
    (IF start[cell] THEN {"start"} ELSE {})
    \cup (IF cell = exit_cell THEN {"exit"} ELSE {})
    \cup (IF exercise_present[cell] THEN {"exercise_present"} ELSE {})

\* The cells that carry an exercise.
ExerciseCells == {cell \in Cells : exercise_present[cell]}

\* C15: after construction no cell carries more than one of the role flags
\* start, exit and exercise_present.
C15_RolesExclusive ==
    Constructed => \A cell \in Cells : Cardinality(RoleFlags(cell)) <= 1

\* C15 as amended: on a grid of more than one cell, after construction no cell
\* carries more than one of the role flags.
C15_RolesExclusiveBeyondOneCell ==
    (Constructed /\ rows * cols > 1) =>
        \A cell \in Cells : Cardinality(RoleFlags(cell)) <= 1

\* A maze with an exercise cell, constructed after an iteration picked the
\* exit cell and skipped it.
C15_Witness ==
    /\ Constructed
    /\ call.item[2] = 2
    /\ Len(exercise_cells) = 1
    /\ exit_cell[1] >= 3 /\ exit_cell[2] >= 3
    /\ exit_cell \notin ExerciseCells

\* C16: after construction the number of distinct cells that carry an
\* exercise is at least min_exercise_cells and at most max_exercise_cells.
C16_ExerciseCountInRange ==
    Constructed =>
        /\ Cardinality(ExerciseCells) >= min_exercise_cells
        /\ Cardinality(ExerciseCells) <= max_exercise_cells

----------------------------------------------------------------------------
\* Generation and hint search, step by step (specification Spec).

\* C17: during generation each cell's visited flag goes from false to true
\* exactly once: maze_generation_dfs is entered for each cell exactly once, a
\* flag once set stays set, visited_cells has no duplicates and holds exactly
\* the flagged cells, and it ends with rows * cols entries.
C17_VisitedExactlyOnce ==
    /\ [](/\ Distinct(visited_cells)
          /\ \A cell \in Cells : visited[cell] <=> cell \in Range(visited_cells))
    /\ [](Generated => Len(visited_cells) = rows * cols)
    /\ [][\A cell \in Cells : visited[cell] => visited'[cell]]_vars
    /\ [][visited' # visited => pc = "gen_call"]_vars
    /\ [][pc = "gen_call" =>
            /\ peek(STACK) # None
            /\ ~visited[peek(STACK)]
            /\ visited' = [visited EXCEPT ![peek(STACK)] = TRUE]
            /\ visited_cells' = Append(visited_cells, peek(STACK))]_vars

\* Generation has ended on a grid of two rows or more and three columns or
\* more, and the last cell entered was reached after a return (it is not
\* next to the cell entered before it).
C17_Witness ==
    /\ Generated
    /\ rows >= 2 /\ cols >= 3
    /\ Len(visited_cells) = rows * cols
    /\ LET a == visited_cells[rows * cols - 1]
           b == visited_cells[rows * cols]
       IN  ~Open(a, b)

\* The search loop of a hint request is about to make its first iteration.
AtLoopStart == pc = "hint_loop" /\ hint.current_cell = None /\ ~hint.broke

\* C18: at the start of the search loop of every hint request the hint stack
\* holds exactly one entry, the player's current cell.
C18_HintStackHoldsOnlyPlayer ==
    AtLoopStart => Live(find_exit_stack) = <<Player>>

\* The wall flags the claim names for next relative to current, as
\* <<cell, wall>> pairs.
MatchingPair(current, next) ==
    IF next = <<current[1] - 1, current[2]>>
    THEN {<<current, "top">>, <<next, "bottom">>}
    ELSE IF next = <<current[1] + 1, current[2]>>
    THEN {<<current, "bottom">>, <<next, "top">>}
    ELSE IF next = <<current[1], current[2] + 1>>
    THEN {<<current, "right">>, <<next, "left">>}
    ELSE IF next = <<current[1], current[2] - 1>>
    THEN {<<current, "left">>, <<next, "right">>}
    ELSE {}

WallNames == {"top", "right", "bottom", "left"}

\* C19: each call of remove_walls made by generation clears exactly one
\* matching wall pair, chosen by the relative position of next to current,
\* and leaves every other wall flag of every cell unchanged; no other step of
\* generation or of a hint request changes a wall flag.
C19_RemoveWallsClearsOnePair ==
    [][IF pc = "gen_loop" /\ pc' = "gen_call"
       THEN LET current == TopFrame.current_cell
                next == Head(TopFrame.adjacent_cells)
                pair == MatchingPair(current, next)
            IN  /\ Cardinality(pair) = 2
                /\ \A cell \in Cells, w \in WallNames :
                       IF <<cell, w>> \in pair
                       THEN walls[cell][w] /\ ~walls'[cell][w]
                       ELSE walls'[cell][w] = walls[cell][w]
       ELSE walls' = walls]_vars

\* remove_walls has just cleared the pair current.top, next.bottom of a
\* current cell that had been reached from its left.
C19_Witness ==
    /\ pc = "gen_call"
    /\ frames # <<>>
    /\ LET current == TopFrame.current_cell
           next == peek(STACK)
       IN  /\ next = <<current[1] - 1, current[2]>>
           /\ ~walls[current].top /\ ~walls[next].bottom
           /\ walls[next].top /\ walls[next].left /\ walls[next].right
           /\ ~walls[current].left

----------------------------------------------------------------------------
\* Hint search on a grid whose wall flags have been desynchronized: Spec on
\* grids of up to MaxDesyncCells cells, with one call of the public
\* Cell.set_walls on the carved maze.

MaxDesyncCells == 5

DesyncInit == Init /\ rows * cols <= MaxDesyncCells

\* Cell.set_walls(wall_to_be_changed, value), called from outside the maze
\* between two operations of the carved maze.
SetWalls(cell, wall_to_be_changed, value) ==
    /\ pc = "idle"
    /\ call_dfs
    /\ call = NoCall
    /\ walls' = [walls EXCEPT ![cell][wall_to_be_changed] = value]
    /\ call' = [op |-> "set_walls", item |-> cell, ret |-> None]
    /\ UNCHANGED <<rows, cols, exit_cell, visited, visited_dfs, visited_cells,
                   STACK, find_exit_stack, call_dfs, pc, frames, hint, outcome,
                   requests, start, exercise_present, exercise_cells,
                   completely_finished>>

DesyncNext ==
    \/ Next
    \/ \E cell \in Cells, wall_to_be_changed \in WallNames, value \in BOOLEAN :
           SetWalls(cell, wall_to_be_changed, value)

DesyncSpec == DesyncInit /\ [][DesyncNext]_vars

\* Cell b is grid-adjacent to cell a and a's wall flag on b's side is False.
SideOpen(a, b) ==
    \/ b = <<a[1], a[2] + 1>> /\ ~walls[a].right
    \/ b = <<a[1], a[2] - 1>> /\ ~walls[a].left
    \/ b = <<a[1] + 1, a[2]>> /\ ~walls[a].bottom
    \/ b = <<a[1] - 1, a[2]>> /\ ~walls[a].top

\* C20: during a hint search a neighbour is pushed only if the wall between
\* the current cell and that neighbour is False on both cells' sides and the
\* neighbour's visited_dfs flag is False, also on a grid where one wall flag
\* has been desynchronized.
C20_PushNeedsBothSidesOpen ==
    [][(/\ pc = "hint_loop"
        /\ Len(Live(find_exit_stack')) > Len(Live(find_exit_stack)))
       => LET neighbour == peek(find_exit_stack')
              current_cell == hint.current_cell
          IN  /\ SideOpen(current_cell, neighbour)
              /\ SideOpen(neighbour, current_cell)
              /\ ~visited_dfs[neighbour]]_vars

\* On a desynchronized grid the push loop for current_cell is over: a
\* neighbour whose wall is False on current_cell's side only was not pushed,
\* another neighbour was.
C20_Witness ==
    /\ pc = "hint_loop"
    /\ call.op = "set_walls"
    /\ hint.current_cell # None
    /\ hint.valid_cells = <<>>
    /\ \E c, d \in Cells :
           /\ SideOpen(hint.current_cell, c)
           /\ ~SideOpen(c, hint.current_cell)
           /\ ~visited_dfs[c]
           /\ c \notin Range(Live(find_exit_stack))
           /\ hint.PathToExit[c] = None
           /\ d = peek(find_exit_stack)
           /\ hint.PathToExit[d] = hint.current_cell

----------------------------------------------------------------------------
\* Hint requests and repeated setup_maze calls (specification Spec).

\* A step of a find_exit_dfs call: its entry, or a step inside it.
InHintRequest == (pc = "idle" /\ pc' = "hint_loop") \/ pc \in {"hint_loop", "hint_walk"}

\* C21: within one hint computation the parent map entry of a cell is written
\* only the first time the cell is discovered: once PathToExit[cell] is set,
\* no later step of the same computation changes it.
C21_ParentWrittenOnce ==
    [][(pc \in {"hint_loop", "hint_walk"}) =>
          \A cell \in Cells :
              hint.PathToExit[cell] # None =>
                  (hint'.PathToExit[cell] = hint.PathToExit[cell])]_vars

\* The search has met again a cell that has a parent entry, two steps or more
\* from the player's cell, and is about to leave it alone.
C21_Witness ==
    /\ pc = "hint_loop"
    /\ hint.valid_cells # <<>>
    /\ LET cell == Head(hint.valid_cells) IN
           /\ cell \in hint.visited_cells
           /\ hint.PathToExit[cell] # None
           /\ hint.PathToExit[cell] # Player
           /\ hint.PathToExit[hint.current_cell] = cell

\* Cell c lies on a shortest open-edge route from the player's cell to the exit.
OnRoute(c) ==
    DistFrom({Player}, c, 0) + DistFrom({c}, exit_cell, 0)
        = DistFrom({Player}, exit_cell, 0)

\* C22: a hint request that returns sets visited_dfs to true on exactly the
\* cells of the route from the player's cell to the exit, the exit included
\* and the player's cell excluded, and changes the flag of no other cell.
C22_HintFlagsExactlyThePath ==
    [][(pc = "hint_walk" /\ outcome' = "returned") =>
          \A c \in Cells :
              IF OnRoute(c) /\ c # Player
              THEN ~visited_dfs[c] /\ visited_dfs'[c]
              ELSE (visited_dfs'[c] = visited_dfs[c])]_vars

\* A hint has returned from a cell two steps or more from the exit on a grid
\* with cells off the route: the route is flagged, the player's cell and the
\* cells off the route are not.
C22_Witness ==
    /\ HintOver /\ outcome = "returned"
    /\ Len(HintPath) >= 2
    /\ visited_dfs[exit_cell]
    /\ ~visited_dfs[Player]
    /\ \E c \in Cells : c # Player /\ ~visited_dfs[c] /\ Open(Player, c)

\* C23: once generation has completed, no hint request changes any wall
\* flag, any generation-visited flag or any role flag of any cell, nor the
\* visited list or the generation stack.
C23_HintLeavesMazeAlone ==
    [][(Generated /\ InHintRequest) =>
          /\ walls' = walls
          /\ visited' = visited
          /\ visited_cells' = visited_cells
          /\ STACK' = STACK
          /\ start' = start
          /\ exit_cell' = exit_cell
          /\ exercise_present' = exercise_present
          /\ exercise_cells' = exercise_cells]_vars

\* Two hint requests have ended, one by return with flagged cells and one by
\* KeyError, on a maze that still has every generation flag set.
C23_Witness ==
    /\ HintOver /\ Len(requests) = 2
    /\ outcome = "KeyError"
    /\ \E c \in Cells : visited_dfs[c]
    /\ \A c \in Cells : visited[c]
    /\ start[Start] /\ ~start[exit_cell]

\* C24: generation runs once per Maze instance: the first setup_maze call
\* carves the maze, and once it has returned no later step, a later
\* setup_maze call included, changes a wall flag, the visited list or the
\* generation stack.
C24_GenerationRunsOnce ==
    /\ []((~Generated /\ pc = "idle") =>
             /\ visited_cells = <<>>
             /\ \A cell \in Cells : walls[cell] = AllWalls)
    /\ [][(~Generated /\ pc = "idle") => pc' = "gen_call"]_vars
    /\ [][Generated =>
             /\ Generated'
             /\ walls' = walls
             /\ visited_cells' = visited_cells
             /\ STACK' = STACK]_vars

\* Generation has returned and left a stack whose peek is a cell: a second
\* run of maze_generation_dfs would find a current cell.
C24_Witness ==
    /\ Generated
    /\ pc = "idle"
    /\ rows * cols >= 4
    /\ peek(STACK) # None
    /\ Len(visited_cells) = rows * cols

\* Generation is running.
Generating == pc \in {"gen_call", "gen_loop"}

C27_BoundaryWallsStay ==
    /\ \A c \in 0..(cols - 1) :
           walls[<<0, c>>].top /\ walls[<<rows - 1, c>>].bottom
    /\ \A r \in 0..(rows - 1) :
           walls[<<r, 0>>].left /\ walls[<<r, cols - 1>>].right

\* A carved grid of two rows and three columns or more: cells of the first
\* and last row and of the last column have lost inner walls, a corner cell
\* has lost one, and the boundary holds.
C27_Witness ==
    /\ Generated
    /\ rows >= 2 /\ cols >= 3
    /\ \E c \in 0..(cols - 1) : ~walls[<<0, c>>].bottom
    /\ \E c \in 0..(cols - 1) : ~walls[<<rows - 1, c>>].left
    /\ \E r \in 0..(rows - 1) : ~walls[<<r, cols - 1>>].top
    /\ (~walls[<<rows - 1, cols - 1>>].left) # (~walls[<<rows - 1, cols - 1>>].top)
    /\ walls[<<0, 0>>].top /\ walls[<<0, 0>>].left
    /\ walls[<<rows - 1, cols - 1>>].bottom /\ walls[<<rows - 1, cols - 1>>].right

----------------------------------------------------------------------------
\* The exercises of a constructed maze: Maze.__init__ as in CtorSpec, then
\* any of the exercises are played to the end, then
\* check_if_all_exercise_cells_are_complete is called.

CheckOp == "check_if_all_exercise_cells_are_complete"

\* An exercise sets _completely_finished when it has been played to the end.
FinishExercise(cell) ==
    /\ pc = "idle"
    /\ call.op # CheckOp
    /\ exercise_present[cell]
    /\ ~completely_finished[cell]
    /\ completely_finished' = [completely_finished EXCEPT ![cell] = TRUE]
    /\ UNCHANGED <<rows, cols, exit_cell, walls, visited, visited_dfs, visited_cells,
                   STACK, find_exit_stack, call_dfs, pc, frames, hint, outcome,
                   requests, start, exercise_present, exercise_cells, call>>

\* Maze.check_if_all_exercise_cells_are_complete: the loop over
\* __exercise_cells and the value it returns.
check_if_all_exercise_cells_are_complete ==
    LET not_complete ==
            \E i \in 1..Len(exercise_cells) :
                ~completely_finished[exercise_cells[i]]
    IN  not_complete

CheckExercises ==
    /\ pc = "idle"
    /\ call.op # CheckOp
    /\ call' = [op |-> CheckOp, item |-> call.item,
                ret |-> check_if_all_exercise_cells_are_complete]
    /\ UNCHANGED <<maze, STACK>>

ExerciseNext ==
    \/ CtorNext
    \/ \E cell \in Cells : FinishExercise(cell)
    \/ CheckExercises

ExerciseSpec == CtorInit /\ [][ExerciseNext]_vars

\* C26: check_if_all_exercise_cells_are_complete returns True exactly when
\* the attached exercise of every exercise cell reports completely finished,
\* and False when at least one does not.
C26_CheckReturnsAllComplete ==
    call.op = CheckOp =>
        (call.ret <=> \A cell \in ExerciseCells : completely_finished[cell])

----------------------------------------------------------------------------
\* Stack as a data structure (specification StackSpec).

\* C28: Stack is last-in first-out: in every stack that a sequence of push and
\* pop calls can produce, a push of x on a non-full stack followed at once by
\* pop returns x and restores the stack pointer and the live contents; a push
\* on a non-full stack puts its item on top of the live items, and a pop of a
\* non-empty stack returns the top live item and leaves the ones below it, so
\* successive pops return the live items in the reverse of their push order.
C28_LastInFirstOut ==
    /\ [](\A x \in StackItems :
              ~is_full(STACK) =>
                  /\ popped(push(STACK, x)) = x
                  /\ pop(push(STACK, x)).stackpointer = STACK.stackpointer
                  /\ Live(pop(push(STACK, x))) = Live(STACK))
    /\ [][(call'.op = "push" /\ ~is_full(STACK)) =>
              Live(STACK') = Append(Live(STACK), call'.item)]_vars
    /\ [][(call'.op = "pop" /\ ~is_empty(STACK)) =>
              /\ call'.ret = Live(STACK)[Len(Live(STACK))]
              /\ Live(STACK') = SubSeq(Live(STACK), 1, Len(Live(STACK)) - 1)]_vars

\* A pop has returned the item under a different item that was popped before
\* it: two live items are left, and the dead slot above them holds the other
\* item.
C28_Witness ==
    /\ call.op = "pop"
    /\ Len(STACK.items) = 3
    /\ STACK.stackpointer = 0
    /\ call.ret = STACK.items[2]
    /\ STACK.items[3] # STACK.items[2]
    /\ STACK.items[3] # None

\* C29: after any sequence of push, pop and peek calls on a Stack of capacity
\* N, -1 <= stackpointer <= N-1; is_empty() is true exactly when stackpointer
\* is -1, that is when there is no live item; is_full() is true exactly when
\* stackpointer is N-1, that is when there are N live items; and peek changes
\* nothing.
C29_PointerInRange ==
    /\ [](LET N == Len(STACK.items) IN
              /\ -1 <= STACK.stackpointer /\ STACK.stackpointer <= N - 1
              /\ is_empty(STACK) <=> STACK.stackpointer = -1
              /\ is_empty(STACK) <=> Live(STACK) = <<>>
              /\ is_full(STACK) <=> STACK.stackpointer = N - 1
              /\ is_full(STACK) <=> Len(Live(STACK)) = N)
    /\ [][call'.op = "peek" => STACK' = STACK]_vars

\* peek has returned the top of a full stack of the largest capacity whose
\* slots hold different items.
C29_Witness ==
    /\ call.op = "peek"
    /\ Len(STACK.items) = MaxStack
    /\ is_full(STACK)
    /\ call.ret = STACK.items[MaxStack]
    /\ STACK.items[1] # STACK.items[MaxStack]

\* C30: Stack.peek on an empty stack returns None whatever the stack's
\* history, also after the stack has been filled to capacity and then emptied.
C30_PeekOnEmptyIsNone ==
    (call.op = "peek" /\ is_empty(STACK)) => call.ret = None

====
